---- MODULE Spec2Model ----
(***************************************************************************)
(* Riftbound London Event Watcher (riftbound_watcher_fixed.py).            *)
(*                                                                         *)
(* The model follows the pipeline of run_once: load_state, find_events     *)
(* (six source adapters visited in a fixed order, the one-day time window, *)
(* _dedup_slot_conflicts), the novelty diff against the loaded ledger, the *)
(* notifications in start order, save_state, and main's export.            *)
(*                                                                         *)
(* Text is a sequence of one-character strings, so that lower-casing,      *)
(* substring tests and the regular-expression substitutions of             *)
(* _canonical_title are computed, not assumed.  An instant is a number of  *)
(* seconds since 2023-01-01 00:00 London time; every modelled date lies in *)
(* the winter (GMT) part of the civil calendar, so londonify adds no       *)
(* offset.  A SHA-1 digest is modelled by the text it digests, split at    *)
(* its "|" separators: no store name contains "|" and an ISO timestamp has *)
(* a fixed width, so distinct tuples are distinct base strings.            *)
(***************************************************************************)
EXTENDS Integers, Sequences, FiniteSets, TLC

\* ------------------------------------------------------------------ text

UPPER == <<"A","B","C","D","E","F","G","H","I","J","K","L","M","N","O","P","Q","R","S","T","U","V","W","X","Y","Z">>

LOWER == <<"a","b","c","d","e","f","g","h","i","j","k","l","m","n","o","p","q","r","s","t","u","v","w","x","y","z">>

\* "endash" stands for the one character U+2013.
Dashes == {"-", "endash", ":"}

Whitespace == {" ", "\t", "\n"}

Riftbound == <<"r","i","f","t","b","o","u","n","d">>

NexusNights == <<"n","e","x","u","s"," ","n","i","g","h","t","s">>

NexusNight == <<"n","e","x","u","s"," ","n","i","g","h","t">>

EventPhp == <<"e","v","e","n","t",".","p","h","p">>

lower_char(c) ==
    IF \E i \in 1..Len(UPPER) : UPPER[i] = c
    THEN LOWER[CHOOSE i \in 1..Len(UPPER) : UPPER[i] = c]
    ELSE c

\* str.lower()
str_lower(s) == [i \in 1..Len(s) |-> lower_char(s[i])]

\* sub in s
str_contains(s, sub) ==
    \E i \in 1..(Len(s) - Len(sub) + 1) : SubSeq(s, i, i + Len(sub) - 1) = sub

RECURSIVE drop_run(_, _)
drop_run(s, class) ==
    IF s # <<>> /\ Head(s) \in class THEN drop_run(Tail(s), class) ELSE s

\* re.sub(r"[class]+", " ", s): every maximal run of class characters becomes one space.
RECURSIVE re_sub_runs(_, _)
re_sub_runs(s, class) ==
    IF s = <<>> THEN <<>>
    ELSE IF Head(s) \in class
         THEN <<" ">> \o re_sub_runs(drop_run(s, class), class)
         ELSE <<Head(s)>> \o re_sub_runs(Tail(s), class)

\* s.replace(old, new): every non-overlapping occurrence, left to right.
RECURSIVE str_replace(_, _, _)
str_replace(s, old, new) ==
    IF Len(s) < Len(old) THEN s
    ELSE IF SubSeq(s, 1, Len(old)) = old
         THEN new \o str_replace(SubSeq(s, Len(old) + 1, Len(s)), old, new)
         ELSE <<Head(s)>> \o str_replace(Tail(s), old, new)

RECURSIVE rstrip(_)
rstrip(s) ==
    IF s # <<>> /\ s[Len(s)] \in Whitespace THEN rstrip(SubSeq(s, 1, Len(s) - 1)) ELSE s

\* s.strip()
str_strip(s) == rstrip(drop_run(s, Whitespace))

\* ------------------------------------------------------------------ time

OneMinute == 60

OneHour == 60 * OneMinute

OneDay == 24 * OneHour

\* dt.replace(second=0, microsecond=0)
Minute(t) == t - (t % OneMinute)

\* guess_end(start, hours)
guess_end(start, hours) == start + hours * OneHour

\* ------------------------------------------------------------------ RBEvent

StoreDS == "Dark Sphere (Shepherd's Bush)"

StoreSP == "Spellbound Games (London)"

StoreBR == "The Brotherhood Games (Bermondsey)"

StoreLE == "Leisure Games (Finchley)"

StoreZO == "Zombie Games Cafe (Cricklewood)"

StoreEU == "Europa Gaming (Wembley)"

\* The adapters in the order find_events visits them.
Adapters == <<StoreDS, StoreSP, StoreBR, StoreLE, StoreZO, StoreEU>>

RBEvent(title, start, end, url, store) ==
    [title |-> title, start |-> start, end |-> end, url |-> url, store |-> store]

\* RBEvent.uid: sha1("store|title|start minute")
uid(ev) == <<ev.store, ev.title, Minute(ev.start)>>

\* RBEvent.stable_id: sha1("store|start minute")
stable_id(ev) == <<ev.store, Minute(ev.start)>>

\* ------------------------------------------------------------------ state persistence

\* The file at STATE_PATH: absent, a JSON array of ids, JSON that is not an
\* array, or text that is not JSON.
FileMissing == [kind |-> "missing", ids |-> {}]

FileNotList == [kind |-> "notlist", ids |-> {}]

FileGarbage == [kind |-> "garbage", ids |-> {}]

FileList(ids) == [kind |-> "list", ids |-> ids]

\* A load_state that takes an array for no array: it never returns an id.
load_state_forgetful(f) == [raised |-> f.kind = "garbage", seen |-> {}]

\* load_state: json.load raises on text that is not JSON; nothing catches it.
load_state(f) ==
    CASE f.kind = "missing" -> [raised |-> FALSE, seen |-> {}]
      [] f.kind = "garbage" -> [raised |-> TRUE, seen |-> {}]
      [] f.kind = "list"    -> [raised |-> FALSE, seen |-> f.ids]
      [] OTHER              -> [raised |-> FALSE, seen |-> {}]

\* save_state: the whole file is rewritten with the ids of seen.
save_state(seen) == FileList(seen)

\* ------------------------------------------------------------------ de-duplication

_canonical_title(title) ==
    LET t1 == str_lower(title)
        t2 == re_sub_runs(t1, Dashes)
        t3 == str_replace(t2, NexusNights, NexusNight)
    IN  str_strip(re_sub_runs(t3, Whitespace))

score(ev) ==
    <<IF str_contains(ev.url, EventPhp) THEN 1 ELSE 0, Len(ev.title)>>

\* Python's tuple comparison a >= b
ScoreGE(a, b) == a[1] > b[1] \/ (a[1] = b[1] /\ a[2] >= b[2])

\* A choice that returns the preferred title under the other candidate's url.
prefer_merged(a, b) ==
    IF ScoreGE(score(a), score(b)) THEN [a EXCEPT !.url = b.url] ELSE [b EXCEPT !.url = a.url]

\* A choice that keeps the later of two candidates of equal score.
prefer_later_on_tie(a, b) ==
    IF score(a) # score(b) /\ ScoreGE(score(a), score(b)) THEN a ELSE b

_prefer_event(a, b) == IF ScoreGE(score(a), score(b)) THEN a ELSE b

\* by_key is a Python dict: a sequence of entries in insertion order.
KeyIndex(by_key, key) ==
    IF \E i \in 1..Len(by_key) : by_key[i].key = key
    THEN CHOOSE i \in 1..Len(by_key) : by_key[i].key = key
    ELSE 0

dict_set(by_key, key, ev) ==
    IF KeyIndex(by_key, key) = 0
    THEN Append(by_key, [key |-> key, ev |-> ev])
    ELSE [by_key EXCEPT ![KeyIndex(by_key, key)].ev = ev]

HasRiftbound(title) == str_contains(_canonical_title(title), Riftbound)

\* A loop that merges every two candidates of a slot, whatever their titles.
dedup_step_merge_all(by_key, ev) ==
    LET key == <<ev.store, Minute(ev.start)>>
        k   == KeyIndex(by_key, key)
    IN  dict_set(by_key, key, IF k = 0 THEN ev ELSE _prefer_event(by_key[k].ev, ev))

\* One iteration of the loop of _dedup_slot_conflicts.
dedup_step(by_key, ev) ==
    LET key == <<ev.store, Minute(ev.start)>>
        k   == KeyIndex(by_key, key)
    IN  IF k = 0
        THEN dict_set(by_key, key, ev)
        ELSE LET existing == by_key[k].ev
             IN  IF HasRiftbound(ev.title) /\ HasRiftbound(existing.title)
                 THEN dict_set(by_key, key, _prefer_event(existing, ev))
                 ELSE LET alt_key == <<ev.store, Minute(ev.start), _canonical_title(ev.title)>>
                          c       == KeyIndex(by_key, alt_key)
                      IN  dict_set(by_key, alt_key,
                                   IF c # 0 THEN _prefer_event(by_key[c].ev, ev) ELSE ev)

RECURSIVE dedup_loop(_, _)
dedup_loop(by_key, events) ==
    IF events = <<>> THEN by_key
    ELSE dedup_loop(dedup_step(by_key, Head(events)), Tail(events))

\* list(by_key.values())
dict_values(by_key) == [i \in 1..Len(by_key) |-> by_key[i].ev]

_dedup_slot_conflicts(events) == dict_values(dedup_loop(<<>>, events))

\* ------------------------------------------------------------------ calendar

IsLeap(y) == (y % 4 = 0 /\ y % 100 # 0) \/ y % 400 = 0

\* The month lengths datetime.date accepts.
DaysInMonth(y, m) ==
    CASE m \in {4, 6, 9, 11} -> 30
      [] m = 2 -> IF IsLeap(y) THEN 29 ELSE 28
      [] OTHER -> 31

Date(y, m, d) == [year |-> y, month |-> m, day |-> d]

\* Python's None where a date is expected.
NoDate == Date(0, 0, 0)

\* date(y, m, d) raises ValueError unless this holds.
ValidDate(y, m, d) == m \in 1..12 /\ d >= 1 /\ d <= DaysInMonth(y, m)

RECURSIVE DaysBeforeYear(_)
DaysBeforeYear(y) ==
    IF y <= 2023 THEN 0
    ELSE DaysBeforeYear(y - 1) + (IF IsLeap(y - 1) THEN 366 ELSE 365)

RECURSIVE DaysBeforeMonth(_, _)
DaysBeforeMonth(y, m) ==
    IF m <= 1 THEN 0 ELSE DaysBeforeMonth(y, m - 1) + DaysInMonth(y, m - 1)

\* Midnight of a date, as an instant.
Midnight(d) == (DaysBeforeYear(d.year) + DaysBeforeMonth(d.year, d.month) + d.day - 1) * OneDay

\* now.year and the month of now.strftime("%B")
YearOf(t) == CHOOSE y \in 2023..2029 :
                 Midnight(Date(y, 1, 1)) <= t /\ t < Midnight(Date(y + 1, 1, 1))

MonthOf(t) == CHOOSE m \in 1..12 :
                  /\ Midnight(Date(YearOf(t), m, 1)) <= t
                  /\ t < Midnight(Date(YearOf(t), m, 1)) + DaysInMonth(YearOf(t), m) * OneDay

\* A resolver that carries the days beyond the month's end into the next month.
resolve_by_overflow(month, year, day) ==
    IF ValidDate(year, month, day) THEN Date(year, month, day)
    ELSE LET n_year  == IF month = 12 THEN year + 1 ELSE year
             n_month == IF month = 12 THEN 1 ELSE month + 1
             n_day   == day - DaysInMonth(year, month)
         IN  IF ValidDate(n_year, n_month, n_day) THEN Date(n_year, n_month, n_day) ELSE NoDate

\* A resolver without the second attempt.
resolve_no_rollover(month, year, day) ==
    IF ValidDate(year, month, day) THEN Date(year, month, day) ELSE NoDate

\* resolve_calendar_date, the month name already parsed to its number.
resolve_calendar_date(month, year, day) ==
    IF ValidDate(year, month, day) THEN Date(year, month, day)
    ELSE LET n_year  == IF month = 12 THEN year + 1 ELSE year
             n_month == IF month = 12 THEN 1 ELSE month + 1
         IN  IF ValidDate(n_year, n_month, day) THEN Date(n_year, n_month, day) ELSE NoDate

\* ------------------------------------------------------------------ clock texts

\* A clock text "H:MM" with an optional am/pm suffix, as the regular
\* expressions of parse_time_range capture it.
Clock(h, m, ap) == [h |-> h, m |-> m, ap |-> ap]

\* Python's None where a clock text is expected.
NoClock == Clock(-1, -1, "")

C1900 == Clock(19, 0, "")

C2300 == Clock(23, 0, "")

C1830 == Clock(18, 30, "")

C1300 == Clock(13, 0, "")

\* A scraped text, as the tokens the regular expressions see: clock texts,
\* dashes (hyphen or en dash) and other words.
TokClock(c) == [t |-> "clock", c |-> c]

TokDash == [t |-> "dash", c |-> NoClock]

TokWord == [t |-> "word", c |-> NoClock]

NoSuffix(c) == Clock(c.h, c.m, "")

\* The first regular expression: H:MM, a dash, H:MM (no am/pm between them).
IsRangeAt(text, i) ==
    /\ i + 2 <= Len(text)
    /\ text[i].t = "clock" /\ text[i].c.ap = ""
    /\ text[i + 1].t = "dash"
    /\ text[i + 2].t = "clock"

parse_time_range(text) ==
    IF \E i \in 1..Len(text) : IsRangeAt(text, i)
    THEN LET i == CHOOSE j \in 1..Len(text) :
                      IsRangeAt(text, j) /\ \A k \in 1..(j - 1) : ~IsRangeAt(text, k)
         IN  <<text[i].c, NoSuffix(text[i + 2].c)>>
    ELSE IF \E i \in 1..Len(text) : text[i].t = "clock"
         THEN LET i == CHOOSE j \in 1..Len(text) :
                           text[j].t = "clock" /\ \A k \in 1..(j - 1) : text[k].t # "clock"
              IN  <<text[i].c, NoClock>>
         ELSE <<NoClock, NoClock>>

\* dateutil raises ParserError (a ValueError) on a clock text that is no time of day.
ValidClock(c) ==
    /\ c.m \in 0..59
    /\ IF c.ap = "" THEN c.h \in 0..23 ELSE c.h \in 0..12

Hour24(c) ==
    IF c.ap = "pm" /\ c.h < 12 THEN c.h + 12
    ELSE IF c.ap = "am" /\ c.h = 12 THEN 0
    ELSE c.h

\* londonify(dtparse.parse(f"{date.isoformat()} {clock}")), for a valid clock text.
ParseDateTime(d, c) == Midnight(d) + Hour24(c) * OneHour + c.m * OneMinute

\* ------------------------------------------------------------------ source adapters

\* What an adapter reads of one element of a fetched page.  A calendar page
\* (Dark Sphere) has day headers ("9. Sunday") and links; the other pages have
\* links only.  Of a link: its text or page title, its href, whether its
\* detail page can be fetched (ok), whether the detail body names Riftbound
\* (body_kw), the date its title and its body yield to _extract_date_from_title
\* or _extract_date_loose (tdate, bdate), the text scanned for times, and, on
\* the calendar page, the day the walk back over the 10 previous elements
\* finds (back).
NoDay == -1

DayNode(d) ==
    [n |-> "day", day |-> d, back |-> NoDay, title |-> <<>>, href |-> <<>>, ok |-> TRUE,
     body_kw |-> FALSE, tdate |-> NoDate, bdate |-> NoDate, text |-> <<>>]

CalLink(title, href, text, back) ==
    [n |-> "a", day |-> NoDay, back |-> back, title |-> title, href |-> href, ok |-> TRUE,
     body_kw |-> FALSE, tdate |-> NoDate, bdate |-> NoDate, text |-> text]

Link(title, href, ok, body_kw, tdate, bdate, text) ==
    [n |-> "a", day |-> NoDay, back |-> NoDay, title |-> title, href |-> href, ok |-> ok,
     body_kw |-> body_kw, tdate |-> tdate, bdate |-> bdate, text |-> text]

\* What an adapter fetches: whether the hub (home, calendar) page can be
\* fetched, the month the calendar shows (0: none), its elements; for Zombie
\* the second hub (ok2, items2); for Europa the pages behind the two
\* known-good addresses (fallback).
Page(ok, month, items, ok2, items2, fallback) ==
    [ok |-> ok, month |-> month, items |-> items, ok2 |-> ok2, items2 |-> items2,
     fallback |-> fallback]

TitleHasRiftbound(title) == str_contains(str_lower(title), Riftbound)

\* The state of an adapter's loop: the events collected, the day cursor of the
\* calendar walk, and whether an exception has left the loop.
AdapterStart(page) ==
    [raised |-> FALSE, events |-> <<>>, current_day |-> NoDay, month |-> page.month]

Raise(st) == [st EXCEPT !.raised = TRUE]

Collect(st, ev) == [st EXCEPT !.events = Append(st.events, ev)]

OrDefault(c, default) == IF c # NoClock THEN c ELSE default

\* The loop body of scrape_darksphere for one element.
darksphere_step(st, node, now) ==
    IF node.n = "day" THEN [st EXCEPT !.current_day = node.day]
    ELSE IF ~TitleHasRiftbound(node.title) THEN st
    ELSE LET tr    == parse_time_range(node.text)
             day   == IF st.current_day = NoDay THEN node.back ELSE st.current_day
             st1   == [st EXCEPT !.current_day = day]
             month == IF st.month = 0 THEN MonthOf(now) ELSE st.month
             ev_date == resolve_calendar_date(month, YearOf(now), day)
             start_time == OrDefault(tr[1], C1900)
         IN  IF day = NoDay \/ ev_date = NoDate THEN st1
             ELSE IF ~ValidClock(start_time) THEN Raise(st1)
             ELSE IF tr[2] # NoClock /\ ~ValidClock(tr[2]) THEN Raise(st1)
             ELSE LET start_dt == ParseDateTime(ev_date, start_time)
                      end_dt   == IF tr[2] # NoClock THEN ParseDateTime(ev_date, tr[2])
                                  ELSE guess_end(start_dt, 4)
                  IN  Collect(st1, RBEvent(node.title, start_dt, end_dt, node.href, StoreDS))

\* The loop body of _scrape_shopify_products for one product link.
shopify_step(st, a, store) ==
    IF a.href = <<>> \/ ~TitleHasRiftbound(a.title) THEN st
    ELSE LET fetched == a.tdate = NoDate /\ a.ok
             ev_date == IF a.tdate # NoDate THEN a.tdate
                        ELSE IF a.ok THEN a.bdate ELSE NoDate
             tr == parse_time_range(a.text)
             start_time == IF fetched THEN OrDefault(tr[1], C1900) ELSE C1900
             end_time   == IF fetched THEN OrDefault(tr[2], C2300) ELSE C2300
         IN  IF ev_date = NoDate THEN st
             ELSE IF ~ValidClock(start_time) \/ ~ValidClock(end_time) THEN Raise(st)
             ELSE Collect(st, RBEvent(a.title, ParseDateTime(ev_date, start_time),
                                      ParseDateTime(ev_date, end_time), a.href, store))

\* _extract_dt_from_text: the first clock text, with its am/pm suffix.
FirstClock(text) ==
    IF \E i \in 1..Len(text) : text[i].t = "clock"
    THEN text[CHOOSE j \in 1..Len(text) :
                  text[j].t = "clock" /\ \A k \in 1..(j - 1) : text[k].t # "clock"].c
    ELSE NoClock

\* The loop body of scrape_zombie for one product page.
zombie_step(st, it) ==
    IF ~it.ok \/ ~(TitleHasRiftbound(it.title) \/ it.body_kw) THEN st
    ELSE LET ev_date == IF it.tdate # NoDate THEN it.tdate ELSE it.bdate
             start_time == OrDefault(FirstClock(it.text), C1830)
         IN  IF ev_date = NoDate THEN st
             ELSE IF ~ValidClock(start_time) THEN Raise(st)
             ELSE LET start_dt == ParseDateTime(ev_date, start_time)
                  IN  Collect(st, RBEvent(it.title, start_dt, guess_end(start_dt, 3),
                                          it.href, StoreZO))

\* The loop body of scrape_europa for one event page.
europa_step(st, it) ==
    IF ~it.ok \/ ~(TitleHasRiftbound(it.title) \/ it.body_kw) THEN st
    ELSE LET tr  == parse_time_range(it.text)
             evd == IF it.tdate # NoDate THEN it.tdate ELSE it.bdate
             start_time == OrDefault(tr[1], C1300)
         IN  IF evd = NoDate THEN st
             ELSE IF ~ValidClock(start_time) THEN Raise(st)
             ELSE IF tr[2] # NoClock /\ ~ValidClock(tr[2]) THEN Raise(st)
             ELSE LET start_dt == ParseDateTime(evd, start_time)
                      end_dt   == IF tr[2] # NoClock THEN ParseDateTime(evd, tr[2])
                                  ELSE guess_end(start_dt, 4)
                  IN  Collect(st, RBEvent(it.title, start_dt, end_dt, it.href, StoreEU))

\* list(dict.fromkeys(links)): the first link of each address, in order.
unique_links(items) ==
    SelectSeq([i \in 1..Len(items) |->
                  [it |-> items[i],
                   first |-> \A k \in 1..(i - 1) : items[k].href # items[i].href]],
              LAMBDA e : e.first)

LinksOf(items) == [i \in 1..Len(unique_links(items)) |-> unique_links(items)[i].it]

Shopify == {StoreSP, StoreBR, StoreLE}

\* Whether the adapter's first fetch raises: fetch is unguarded in
\* scrape_darksphere and _scrape_shopify_products, guarded in the other two.
FetchRaises(store, page) == store \in Shopify \cup {StoreDS} /\ ~page.ok

\* The elements the adapter's loop visits, in order.
WorkItems(store, page) ==
    CASE store = StoreZO ->
             (IF page.ok THEN LinksOf(page.items) ELSE <<>>)
             \o (IF page.ok2 THEN LinksOf(page.items2) ELSE <<>>)
      [] store = StoreEU ->
             IF page.ok /\ LinksOf(page.items) # <<>> THEN LinksOf(page.items)
             ELSE page.fallback
      [] OTHER -> page.items

adapter_step(store, st, it, now) ==
    CASE store = StoreDS -> darksphere_step(st, it, now)
      [] store = StoreZO -> zombie_step(st, it)
      [] store = StoreEU -> europa_step(st, it)
      [] OTHER -> shopify_step(st, it, store)

\* list({(e.title, e.start): e for e in events}.values())
RECURSIVE title_start_dict(_, _)
title_start_dict(by_key, events) ==
    IF events = <<>> THEN by_key
    ELSE title_start_dict(dict_set(by_key, <<Head(events).title, Head(events).start>>,
                                   Head(events)),
                          Tail(events))

dedup_title_start(events) == dict_values(title_start_dict(<<>>, events))

\* What the adapter returns once its loop has ended without an exception.
adapter_return(store, events) ==
    IF store = StoreDS THEN events ELSE dedup_title_start(events)

RECURSIVE adapter_loop(_, _, _, _)
adapter_loop(store, st, items, now) ==
    IF items = <<>> \/ st.raised THEN st
    ELSE adapter_loop(store, adapter_step(store, st, Head(items), now), Tail(items), now)

\* scrape_darksphere .. scrape_europa: the outcome of one adapter on one page.
scrape(store, page, now) ==
    IF FetchRaises(store, page) THEN [raised |-> TRUE, events |-> <<>>]
    ELSE LET st == adapter_loop(store, AdapterStart(page), WorkItems(store, page), now)
         IN  IF st.raised THEN [raised |-> TRUE, events |-> <<>>]
             ELSE [raised |-> FALSE, events |-> adapter_return(store, st.events)]

\* ------------------------------------------------------------------ find_events

\* A find_events without the filter on the start.
time_window_all(evs, now) == evs

\* [e for e in evs if e.start >= now - timedelta(days=1)]
time_window(evs, now) == SelectSeq(evs, LAMBDA e : e.start >= now - OneDay)

\* A find_events in which a failing adapter costs what the earlier ones gave.
extend_abort(evs, r) == IF r.raised THEN <<>> ELSE evs \o r.events

\* try: evs.extend(scrape_x(now)) / except Exception: print a warning.
extend_guarded(evs, r) == IF r.raised THEN evs ELSE evs \o r.events

\* The events find_events returns for the concatenated adapter results.
find_events(evs, now) == _dedup_slot_conflicts(time_window(evs, now))

\* A second loop over new_events as they are.
unsorted(events) == events

\* sorted(new_events, key=lambda e: e.start): a stable sort.
RECURSIVE insert_by_start(_, _)
insert_by_start(sorted, ev) ==
    IF sorted = <<>> THEN <<ev>>
    ELSE IF sorted[Len(sorted)].start <= ev.start THEN Append(sorted, ev)
    ELSE Append(insert_by_start(SubSeq(sorted, 1, Len(sorted) - 1), ev), sorted[Len(sorted)])

RECURSIVE sort_loop(_, _)
sort_loop(sorted, events) ==
    IF events = <<>> THEN sorted
    ELSE sort_loop(insert_by_start(sorted, Head(events)), Tail(events))

sorted_by_start(events) == sort_loop(<<>>, events)

\* A test that consults the content id only.
is_new_uid_only(ev, seen) == ~(uid(ev) \in seen)

\* A first loop without a test.
is_new_always(ev, seen) == TRUE

\* The test of the first loop of run_once.
is_new(ev, seen) == ~(uid(ev) \in seen \/ stable_id(ev) \in seen)

\* A first loop that inserts the ids of an event as soon as it is found new.
RECURSIVE novelty_diff_recording(_, _)
novelty_diff_recording(events, seen) ==
    IF events = <<>> THEN <<>>
    ELSE IF is_new(Head(events), seen)
         THEN <<Head(events)>> \o
              novelty_diff_recording(Tail(events),
                                     seen \cup {uid(Head(events)), stable_id(Head(events))})
         ELSE novelty_diff_recording(Tail(events), seen)

\* new_events, in the order of events.
novelty_diff(events, seen) == SelectSeq(events, LAMBDA ev : is_new(ev, seen))

\* A second loop that records the content id only.
record_uid_only(seen, ev) == seen \cup {uid(ev)}

\* A second loop that records nothing.
record_nothing(seen, ev) == seen

\* seen.add(ev.uid()); seen.add(ev.stable_id())
record_ids(seen, ev) == seen \cup {uid(ev), stable_id(ev)}

\* cal.events.add(ics_ev): Calendar.events is a set, and the Event of the ics
\* releases that have it (0.7 and earlier) is hashed and compared by its uid
\* alone, so an event whose uid the set holds already is not added.
ics_add(cal, entry_uid) ==
    IF \E i \in 1..Len(cal) : cal[i] = entry_uid THEN cal ELSE Append(cal, entry_uid)

RECURSIVE ics_add_all(_, _)
ics_add_all(cal, events) ==
    IF events = <<>> THEN cal
    ELSE ics_add_all(ics_add(cal, stable_id(Head(events))), Tail(events))

\* export_ics: the uid of the entries of the calendar written; the uid of an
\* entry is the slot id of its event.
export_ics(events) == ics_add_all(<<>>, events)

\* sorted(events, key=lambda e: (e.start, e.store)) of export_csv, on the
\* alphabetical rank of the store name.
StoreRank(store) ==
    CASE store = StoreDS -> 1 [] store = StoreEU -> 2 [] store = StoreLE -> 3
      [] store = StoreSP -> 4 [] store = StoreBR -> 5 [] OTHER -> 6

RowLE(a, b) == a.start < b.start \/ (a.start = b.start /\ StoreRank(a.store) <= StoreRank(b.store))

RECURSIVE insert_row(_, _)
insert_row(sorted, ev) ==
    IF sorted = <<>> THEN <<ev>>
    ELSE IF RowLE(sorted[Len(sorted)], ev) THEN Append(sorted, ev)
    ELSE Append(insert_row(SubSeq(sorted, 1, Len(sorted) - 1), ev), sorted[Len(sorted)])

RECURSIVE rows_loop(_, _)
rows_loop(sorted, events) ==
    IF events = <<>> THEN sorted
    ELSE rows_loop(insert_row(sorted, Head(events)), Tail(events))

\* export_csv: one row per event.
export_csv(events) == rows_loop(<<>>, events)

\* ------------------------------------------------------------------ the modelled world

\* Titles and addresses the modelled pages show.
TNight == <<"R","i","f","t","b","o","u","n","d"," ","N","i","g","h","t">>

TnightLower == <<"r","i","f","t","b","o","u","n","d"," "," "," ","n","i","g","h","t">>

TNexus == <<"R","i","f","t","b","o","u","n","d",":"," ","N","e","x","u","s"," ","N","i","g","h","t","s">>

TNexusPlain == <<"R","i","f","t","b","o","u","n","d"," ","N","e","x","u","s"," ","N","i","g","h","t">>

TTcg == <<"T","C","G"," ","N","i","g","h","t">>

TTcgDash == <<"T","C","G"," ","-"," ","N","i","g","h","t">>

\* Addresses: of a Dark Sphere event page, and of any other page (n tells
\* them apart).
EventUrl(n) == <<"/">> \o EventPhp \o <<"?", "i", "d", "=", n>>

PageUrl(kind, n) == <<"/", kind, "/", n>>

Noon(d) == Midnight(d) + 12 * OneHour

\* The times at which a run may start.
Nows == {Noon(Date(2025, 11, 29)), Noon(Date(2025, 11, 30))}

Range1923 == <<TokClock(C1900), TokDash, TokClock(C2300)>>

\* "25:99": matched by \d{1,2}:\d{2}, but no time of day.
BadClockText == <<TokWord, TokClock(Clock(25, 99, ""))>>

FetchFails == Page(FALSE, 0, <<>>, FALSE, <<>>, <<>>)

\* Dark Sphere, November: an event on the 28th and one on the 30th.
DSPageA ==
    Page(TRUE, 11,
         <<DayNode(28), CalLink(TNight, EventUrl("1"), <<>>, NoDay),
           DayNode(30), CalLink(TNight, EventUrl("2"), Range1923, NoDay)>>,
         FALSE, <<>>, <<>>)

\* Dark Sphere, no month shown: a link before any day header (the walk back
\* finds the 28th), and the slot of the 30th listed twice under other titles.
DSPageB ==
    Page(TRUE, 0,
         <<CalLink(TNexus, PageUrl("c", "1"), <<>>, 28),
           DayNode(30), CalLink(TnightLower, PageUrl("c", "2"), Range1923, NoDay),
           CalLink(TNexus, EventUrl("3"), Range1923, NoDay)>>,
         FALSE, <<>>, <<>>)

\* Spellbound: one product dated in its title.
SPPage ==
    Page(TRUE, 0, <<Link(TNexusPlain, PageUrl("p", "1"), TRUE, FALSE, Date(2025, 12, 1), NoDate, <<>>)>>,
         FALSE, <<>>, <<>>)

\* Brotherhood: one product without a date whose detail page cannot be fetched.
BRPage ==
    Page(TRUE, 0, <<Link(TNight, PageUrl("p", "2"), FALSE, FALSE, NoDate, NoDate, <<>>)>>,
         FALSE, <<>>, <<>>)

\* Leisure Games: one product, dated on its detail page, more than a day back.
LEPage ==
    Page(TRUE, 0,
         <<Link(TNight, PageUrl("p", "3"), TRUE, FALSE, NoDate, Date(2025, 11, 20),
                <<TokClock(Clock(6, 30, "pm"))>>)>>,
         FALSE, <<>>, <<>>)

ZomLink == Link(TTcg, PageUrl("z", "1"), TRUE, TRUE, NoDate, Date(2025, 11, 20), <<>>)

\* Zombie: both hubs list the same ticket, of an event more than a day back.
ZOPage == Page(TRUE, 0, <<ZomLink>>, TRUE, <<ZomLink>>, <<>>)

\* Zombie: a ticket whose page shows a clock text that is no time of day.
ZOPageBad ==
    Page(TRUE, 0,
         <<ZomLink, Link(TNight, PageUrl("z", "2"), TRUE, FALSE, NoDate, Date(2025, 11, 30), BadClockText)>>,
         FALSE, <<>>, <<>>)

\* Europa: two event pages for the same hour, one titled without the keyword.
EUPage ==
    Page(TRUE, 0,
         <<Link(TTcg, PageUrl("e", "1"), TRUE, TRUE, NoDate, Date(2025, 11, 30), <<>>),
           Link(TNight, PageUrl("e", "2"), TRUE, FALSE, Date(2025, 11, 30), NoDate, <<TokClock(C1300)>>)>>,
         FALSE, <<>>, <<>>)

\* Europa: the second page shows a clock text that is no time of day.
EUPageBad ==
    Page(TRUE, 0,
         <<Link(TNight, PageUrl("e", "2"), TRUE, FALSE, Date(2025, 11, 30), NoDate, <<>>),
           Link(TNexus, PageUrl("e", "3"), TRUE, FALSE, Date(2025, 12, 13), NoDate, BadClockText)>>,
         FALSE, <<>>, <<>>)

\* What a run may find at each source.
Pages(store) ==
    CASE store = StoreDS -> {DSPageA, DSPageB, FetchFails}
      [] store = StoreSP -> {SPPage, FetchFails}
      [] store = StoreBR -> {BRPage, FetchFails}
      [] store = StoreLE -> {LEPage, FetchFails}
      [] store = StoreZO -> {ZOPage, ZOPageBad}
      [] OTHER           -> {EUPage, EUPageBad}

\* An id an earlier version of the watcher left in the ledger: content ids only.
LegacyEvent ==
    RBEvent(TNexusPlain, ParseDateTime(Date(2025, 12, 1), C1900),
            ParseDateTime(Date(2025, 12, 1), C2300), PageUrl("p", "1"), StoreSP)

\* The ledger file a first run may find.
InitialFiles == {FileMissing, FileNotList, FileGarbage, FileList({uid(LegacyEvent)})}

\* ------------------------------------------------------------------ state

\* Invocations of the watcher that may be alive at once.
Procs == {1, 2}

VARIABLES
    file,        \* the ledger file at STATE_PATH
    clock,       \* the latest time a run has started at
    recorded,    \* history: the events whose ids a finished run has saved
    prev,        \* history: the previous finished run, when it loaded an empty ledger
    pc,          \* per invocation: where it stands in main / run_once
    post,        \* run_once's post: TRUE for "run", FALSE for "export"
    webhook,     \* whether DISCORD_WEBHOOK_URL is set for the invocation
    now,         \* the run time
    loaded,      \* history: seen as load_state returned it
    seen,        \* run_once's seen
    idx,         \* the adapter find_events visits next (1..6)
    outcome,     \* history: what each adapter visited so far did
    evs,         \* find_events' evs
    events,      \* what find_events returned
    new_events,  \* run_once's new_events
    queue,       \* sorted(new_events), the part not yet visited
    printed,     \* the events announced by a "NEW:" line
    sent,        \* the messages the webhook has received from this run
    lost,        \* history: whether a delivery of this run has failed
    warned,      \* history: whether find_events has printed a warning in this run
    overlap,     \* history: whether a run has loaded the ledger while another was under way
    ics,         \* the calendar file written: the uid of each entry
    csv,         \* the CSV file written: the event of each row
    dd_pc,       \* _dedup_slot_conflicts applied on its own: where it stands
    dd_events,   \* its argument
    dd_todo,     \* the part of events its loop has not visited
    by_key,      \* its dict
    dd_out,      \* the list it returns
    ad_pc,       \* one adapter applied on its own: where it stands
    ad_store,    \* the adapter
    ad_page,     \* what its source shows
    ad_now,      \* the run time it is given
    ad_todo,     \* the elements its loop has not visited
    ad_st,       \* its loop state
    ad_out,      \* the list it returns
    rd_pc,       \* resolve_calendar_date applied on its own: where it stands
    rd_month,    \* its month, as a number
    rd_year,     \* its year
    rd_day,      \* its day
    rd_out       \* what it returns

runVars == <<file, clock, recorded, prev, pc, post, webhook, now, loaded, seen, idx,
             outcome, evs, events, new_events, queue, printed, sent, lost, warned, overlap,
             ics, csv>>

ddVars == <<dd_pc, dd_events, dd_todo, by_key, dd_out>>

adVars == <<ad_pc, ad_store, ad_page, ad_now, ad_todo, ad_st, ad_out>>

\* The variables of the functions applied on their own.
rdVars == <<rd_pc, rd_month, rd_year, rd_day, rd_out>>

pureVars == <<ddVars, adVars, rdVars>>

vars == <<runVars, ddVars, adVars, rdVars>>

NoPrev == [valid |-> FALSE, events |-> <<>>, new |-> <<>>]

\* The locals of an invocation that is not running.
RunInit ==
    /\ clock = 0
    /\ recorded = {}
    /\ prev = NoPrev
    /\ pc = [p \in Procs |-> "idle"]
    /\ post = [p \in Procs |-> FALSE]
    /\ webhook = [p \in Procs |-> FALSE]
    /\ now = [p \in Procs |-> 0]
    /\ loaded = [p \in Procs |-> {}]
    /\ seen = [p \in Procs |-> {}]
    /\ idx = [p \in Procs |-> 0]
    /\ outcome = [p \in Procs |-> <<>>]
    /\ evs = [p \in Procs |-> <<>>]
    /\ events = [p \in Procs |-> <<>>]
    /\ new_events = [p \in Procs |-> <<>>]
    /\ queue = [p \in Procs |-> <<>>]
    /\ printed = [p \in Procs |-> <<>>]
    /\ sent = [p \in Procs |-> <<>>]
    /\ lost = [p \in Procs |-> FALSE]
    /\ warned = [p \in Procs |-> FALSE]
    /\ overlap = FALSE
    /\ ics = [p \in Procs |-> <<>>]
    /\ csv = [p \in Procs |-> <<>>]

DedupOff ==
    /\ dd_pc = "off"
    /\ dd_events = <<>>
    /\ dd_todo = <<>>
    /\ by_key = <<>>
    /\ dd_out = <<>>

AdapterOff ==
    /\ ad_pc = "off"
    /\ ad_store = StoreDS
    /\ ad_page = FetchFails
    /\ ad_now = 0
    /\ ad_todo = <<>>
    /\ ad_st = AdapterStart(FetchFails)
    /\ ad_out = <<>>

DateOff ==
    /\ rd_pc = "off"
    /\ rd_month = 0
    /\ rd_year = 0
    /\ rd_day = 0
    /\ rd_out = NoDate

Init == file \in InitialFiles /\ RunInit /\ DedupOff /\ AdapterOff /\ DateOff

\* ------------------------------------------------------------------ run_once

\* The positions between load_state and save_state.
InRun(at) == at \in {"scrape", "filter", "notify"}

\* main starts run_once: seen = load_state(); now = the wall clock.  An
\* exception of load_state ends the invocation.
Load(p) ==
    /\ pc[p] \in {"idle", "crashed"}
    /\ \E cmd \in {"run", "export"}, n \in Nows :
          /\ n >= clock
          /\ post' = [post EXCEPT ![p] = (cmd = "run")]
          /\ IF load_state(file).raised
             THEN /\ pc' = [pc EXCEPT ![p] = "crashed"]
                  /\ UNCHANGED <<overlap, clock, now, loaded, seen, idx>>
             ELSE /\ pc' = [pc EXCEPT ![p] = "scrape"]
                  /\ clock' = n
                  /\ now' = [now EXCEPT ![p] = n]
                  /\ loaded' = [loaded EXCEPT ![p] = load_state(file).seen]
                  /\ seen' = [seen EXCEPT ![p] = load_state(file).seen]
                  /\ idx' = [idx EXCEPT ![p] = 1]
                  /\ overlap' = (overlap \/ \E q \in Procs \ {p} : InRun(pc[q]))
    /\ UNCHANGED pureVars
    /\ UNCHANGED <<file, recorded, prev, webhook, outcome, evs, events, new_events,
                   queue, printed, sent, lost, warned, ics, csv>>

\* One try/except block of find_events: the next adapter is called on what its
\* source shows; its events are appended unless it raised.
Scrape(p) ==
    /\ pc[p] = "scrape"
    /\ \E page \in Pages(Adapters[idx[p]]) :
          LET r == scrape(Adapters[idx[p]], page, now[p])
          IN  /\ outcome' = [outcome EXCEPT ![p] =
                                Append(@, [store |-> Adapters[idx[p]], raised |-> r.raised,
                                           events |-> r.events])]
              /\ evs' = [evs EXCEPT ![p] = extend_guarded(@, r)]
              /\ warned' = [warned EXCEPT ![p] = @ \/ r.raised]
    /\ idx' = [idx EXCEPT ![p] = @ + 1]
    /\ pc' = [pc EXCEPT ![p] = IF idx[p] = Len(Adapters) THEN "filter" ELSE "scrape"]
    /\ UNCHANGED pureVars
    /\ UNCHANGED <<file, overlap, clock, recorded, prev, post, webhook, now, loaded, seen, events,
                   new_events, queue, printed, sent, lost, ics, csv>>

\* A first loop that inserts the content id of every event it keeps back.
DiffRefreshing(p) ==
    /\ pc[p] = "filter"
    /\ LET found == find_events(evs[p], now[p])
           fresh == novelty_diff(found, seen[p])
       IN  /\ events' = [events EXCEPT ![p] = found]
           /\ new_events' = [new_events EXCEPT ![p] = fresh]
           /\ queue' = [queue EXCEPT ![p] = sorted_by_start(fresh)]
           /\ seen' = [seen EXCEPT ![p] = @ \cup {uid(found[i]) : i \in 1..Len(found)}]
    /\ evs' = [evs EXCEPT ![p] = <<>>]
    /\ outcome' = [outcome EXCEPT ![p] = <<>>]
    /\ idx' = [idx EXCEPT ![p] = 0]
    /\ \E hook \in BOOLEAN :
          /\ hook => post[p]
          /\ webhook' = [webhook EXCEPT ![p] = hook]
    /\ pc' = [pc EXCEPT ![p] = "notify"]
    /\ UNCHANGED pureVars
    /\ UNCHANGED <<file, overlap, clock, recorded, prev, post, now, loaded,
                   printed, sent, lost, warned, ics, csv>>

\* find_events filters, de-duplicates and returns; run_once's first loop
\* selects the new events and sorts them by start.  DISCORD_WEBHOOK_URL is
\* first read by post_discord: what this invocation finds there is drawn
\* here, and only for a "run" (an "export" never reads it).
Diff(p) ==
    /\ pc[p] = "filter"
    /\ LET found == find_events(evs[p], now[p])
           fresh == novelty_diff(found, seen[p])
       IN  /\ events' = [events EXCEPT ![p] = found]
           /\ new_events' = [new_events EXCEPT ![p] = fresh]
           /\ queue' = [queue EXCEPT ![p] = sorted_by_start(fresh)]
    /\ evs' = [evs EXCEPT ![p] = <<>>]
    /\ outcome' = [outcome EXCEPT ![p] = <<>>]
    /\ idx' = [idx EXCEPT ![p] = 0]
    /\ \E hook \in BOOLEAN :
          /\ hook => post[p]
          /\ webhook' = [webhook EXCEPT ![p] = hook]
    /\ pc' = [pc EXCEPT ![p] = "notify"]
    /\ UNCHANGED pureVars
    /\ UNCHANGED <<file, overlap, clock, recorded, prev, post, now, loaded, seen,
                   printed, sent, lost, warned, ics, csv>>

\* post_discord: nothing without a webhook; a failed delivery is swallowed.
post_discord(log, ev, hook, delivered) ==
    IF hook /\ delivered THEN Append(log, ev) ELSE log

\* A second loop that records the ids of an event only once its message is
\* delivered.
NotifyUnlessFailed(p) ==
    /\ pc[p] = "notify"
    /\ queue[p] # <<>>
    /\ LET ev == Head(queue[p])
       IN  /\ printed' = [printed EXCEPT ![p] = Append(@, ev)]
           /\ \E delivered \in BOOLEAN :
                 /\ (~(post[p] /\ webhook[p])) => delivered
                 /\ sent' = [sent EXCEPT ![p] =
                                IF post[p] THEN post_discord(@, ev, webhook[p], delivered)
                                ELSE @]
                 /\ lost' = [lost EXCEPT ![p] = @ \/ ~delivered]
                 /\ seen' = [seen EXCEPT ![p] = IF delivered THEN record_ids(@, ev) ELSE @]
    /\ queue' = [queue EXCEPT ![p] = Tail(@)]
    /\ UNCHANGED pureVars
    /\ UNCHANGED <<file, overlap, clock, recorded, prev, pc, post, webhook, now, loaded, idx,
                   outcome, evs, events, new_events, warned, ics, csv>>

\* A second loop that saves the ledger after every event.
NotifySaving(p) ==
    /\ pc[p] = "notify"
    /\ queue[p] # <<>>
    /\ LET ev == Head(queue[p])
       IN  /\ printed' = [printed EXCEPT ![p] = Append(@, ev)]
           /\ \E delivered \in BOOLEAN :
                 /\ (~(post[p] /\ webhook[p])) => delivered
                 /\ sent' = [sent EXCEPT ![p] =
                                IF post[p] THEN post_discord(@, ev, webhook[p], delivered)
                                ELSE @]
                 /\ lost' = [lost EXCEPT ![p] = @ \/ ~delivered]
           /\ seen' = [seen EXCEPT ![p] = record_ids(@, ev)]
           /\ file' = save_state(record_ids(seen[p], ev))
    /\ queue' = [queue EXCEPT ![p] = Tail(@)]
    /\ UNCHANGED pureVars
    /\ UNCHANGED <<overlap, clock, recorded, prev, pc, post, webhook, now, loaded, idx,
                   outcome, evs, events, new_events, warned, ics, csv>>

\* One iteration of run_once's second loop: print, post, record both ids.
Notify(p) ==
    /\ pc[p] = "notify"
    /\ queue[p] # <<>>
    /\ LET ev == Head(queue[p])
       IN  /\ printed' = [printed EXCEPT ![p] = Append(@, ev)]
           /\ \E delivered \in BOOLEAN :
                 /\ (~(post[p] /\ webhook[p])) => delivered
                 /\ sent' = [sent EXCEPT ![p] =
                                IF post[p] THEN post_discord(@, ev, webhook[p], delivered)
                                ELSE @]
                 /\ lost' = [lost EXCEPT ![p] = @ \/ ~delivered]
           /\ seen' = [seen EXCEPT ![p] = record_ids(@, ev)]
    /\ queue' = [queue EXCEPT ![p] = Tail(@)]
    /\ UNCHANGED pureVars
    /\ UNCHANGED <<file, overlap, clock, recorded, prev, pc, post, webhook, now, loaded, idx,
                   outcome, evs, events, new_events, warned, ics, csv>>

\* save_state(seen); run_once returns events.
Save(p) ==
    /\ pc[p] = "notify"
    /\ queue[p] = <<>>
    /\ file' = save_state(seen[p])
    /\ recorded' = recorded \cup {printed[p][i] : i \in 1..Len(printed[p])}
    /\ prev' = IF loaded[p] = {}
               THEN [valid |-> TRUE, events |-> events[p], new |-> printed[p]]
               ELSE NoPrev
    /\ pc' = [pc EXCEPT ![p] = IF post[p] THEN "done" ELSE "export"]
    /\ UNCHANGED pureVars
    /\ UNCHANGED <<overlap, clock, post, webhook, now, loaded, seen, idx, outcome, evs, events,
                   new_events, queue, printed, sent, lost, warned, ics, csv>>

\* main's "export": export_ics and export_csv for the paths given.
Export(p) ==
    /\ pc[p] = "export"
    /\ \E ics_path, csv_path \in BOOLEAN :
          /\ ics' = [ics EXCEPT ![p] = IF ics_path THEN export_ics(events[p]) ELSE <<>>]
          /\ csv' = [csv EXCEPT ![p] = IF csv_path THEN export_csv(events[p]) ELSE <<>>]
    /\ pc' = [pc EXCEPT ![p] = "done"]
    /\ UNCHANGED pureVars
    /\ UNCHANGED <<file, overlap, clock, recorded, prev, post, webhook, now, loaded, seen, idx,
                   outcome, evs, events, new_events, queue, printed, sent, lost, warned>>

\* The process ends; its locals are gone.
Exit(p) ==
    /\ pc[p] = "done"
    /\ pc' = [pc EXCEPT ![p] = "idle"]
    /\ post' = [post EXCEPT ![p] = FALSE]
    /\ webhook' = [webhook EXCEPT ![p] = FALSE]
    /\ now' = [now EXCEPT ![p] = 0]
    /\ loaded' = [loaded EXCEPT ![p] = {}]
    /\ seen' = [seen EXCEPT ![p] = {}]
    /\ events' = [events EXCEPT ![p] = <<>>]
    /\ new_events' = [new_events EXCEPT ![p] = <<>>]
    /\ printed' = [printed EXCEPT ![p] = <<>>]
    /\ sent' = [sent EXCEPT ![p] = <<>>]
    /\ lost' = [lost EXCEPT ![p] = FALSE]
    /\ warned' = [warned EXCEPT ![p] = FALSE]
    /\ ics' = [ics EXCEPT ![p] = <<>>]
    /\ csv' = [csv EXCEPT ![p] = <<>>]
    /\ UNCHANGED pureVars
    /\ UNCHANGED <<file, overlap, clock, recorded, prev, idx, outcome, evs, queue>>

\* Runs serialized by the scheduler: one invocation at a time.
Next ==
    \E p \in {1} :
        \/ Load(p)
        \/ Scrape(p)
        \/ Diff(p)
        \/ Notify(p)
        \/ Save(p)
        \/ Export(p)
        \/ Exit(p)

Spec == Init /\ [][Next]_vars

\* A process that has been started is scheduled until it ends; nothing makes
\* the scheduler start another.  Finding is enabled exactly where the run
\* stands in find_events or at the first loop, and its weak fairness is
\* written with that.
Finding == \E p \in {1} : Scrape(p) \/ Diff(p)

Ending == \E p \in {1} : Notify(p) \/ Save(p) \/ Export(p) \/ Exit(p)

SpecLive ==
    /\ Spec
    /\ WF_vars(Ending)
    /\ ([]<>(pc[1] \notin {"scrape", "filter"}) \/ []<><<Finding>>_vars)

\* ------------------------------------------------------------------ runs that overlap

\* What two invocations started close together find at the sources, in the
\* order of Adapters: Dark Sphere shows one of its pages, the others nothing
\* that lasts.
OverlapSources ==
    {<<ds, FetchFails, FetchFails, FetchFails, ZOPage, EUPageBad>> : ds \in {DSPageA, DSPageB}}

\* The try/except blocks of find_events from block i on.
RECURSIVE scrape_from(_, _, _, _)
scrape_from(i, src, got, at) ==
    IF i > Len(Adapters) THEN got
    ELSE LET r == scrape(Adapters[i], src[i], at)
         IN  scrape_from(i + 1, src,
                         [evs |-> extend_guarded(got.evs, r), warned |-> got.warned \/ r.raised],
                         at)

\* find_events and the first loop of run_once in one step: they touch nothing
\* another process can see.
FindAll(p) ==
    /\ pc[p] = "scrape"
    /\ \E src \in OverlapSources :
          LET got   == scrape_from(1, src, [evs |-> <<>>, warned |-> FALSE], now[p])
              found == find_events(got.evs, now[p])
              fresh == novelty_diff(found, seen[p])
          IN  /\ events' = [events EXCEPT ![p] = found]
              /\ new_events' = [new_events EXCEPT ![p] = fresh]
              /\ queue' = [queue EXCEPT ![p] = sorted_by_start(fresh)]
              /\ warned' = [warned EXCEPT ![p] = got.warned]
    /\ idx' = [idx EXCEPT ![p] = 0]
    /\ \E hook \in BOOLEAN :
          /\ hook => post[p]
          /\ webhook' = [webhook EXCEPT ![p] = hook]
    /\ pc' = [pc EXCEPT ![p] = "notify"]
    /\ UNCHANGED pureVars
    /\ UNCHANGED <<file, overlap, clock, recorded, prev, post, now, loaded, seen, outcome, evs,
                   printed, sent, lost, ics, csv>>

InitOverlap == file = FileMissing /\ RunInit /\ DedupOff /\ AdapterOff /\ DateOff

\* Two invocations, one run each, that nothing serializes.
NextOverlap ==
    \E p \in Procs :
        \/ Load(p)
        \/ FindAll(p)
        \/ Notify(p)
        \/ Save(p)
        \/ Export(p)

SpecOverlap == InitOverlap /\ [][NextOverlap]_vars

\* ------------------------------------------------------------------ properties of serialized runs

Range(s) == {s[i] : i \in 1..Len(s)}

\* The ids a run that starts now reads from the ledger file.
LedgerIds(f) == IF f.kind = "list" THEN f.ids ELSE {}

\* The second loop of run_once has ended and save_state is next.
LoopsDone(p) == pc[p] = "notify" /\ queue[p] = <<>>

\* C1: a record of the run's de-duplicated, time-windowed event set is surfaced
\* as new exactly when neither its content id nor its slot id is in the ledger
\* the run read.
SurfacedIffUnseen ==
    \A p \in Procs :
        /\ pc[p] \in {"scrape", "filter", "notify"} => loaded[p] = LedgerIds(file)
        /\ pc[p] = "notify" =>
              \A i \in 1..Len(events[p]) :
                  (events[p][i] \in Range(new_events[p]))
                      <=> (uid(events[p][i]) \notin loaded[p]
                           /\ stable_id(events[p][i]) \notin loaded[p])
        /\ LoopsDone(p) => Range(printed[p]) = Range(new_events[p])

\* A run has surfaced one event and has kept back another whose slot id alone
\* was in the ledger.
SurfacedIffUnseenReached ==
    \E p \in Procs :
        /\ LoopsDone(p)
        /\ printed[p] # <<>>
        /\ \E i \in 1..Len(events[p]) :
              /\ uid(events[p][i]) \notin loaded[p]
              /\ stable_id(events[p][i]) \in loaded[p]
              /\ events[p][i] \notin Range(printed[p])

\* C2: a run on an empty ledger surfaces every record of its event set, and the
\* run after it, finding the same event set, surfaces none.
IdempotentRerun ==
    \A p \in Procs :
        LoopsDone(p) =>
            /\ loaded[p] = {} => Range(events[p]) \subseteq Range(printed[p])
            /\ (prev.valid /\ Range(prev.events) = Range(events[p])) =>
                  /\ Range(prev.events) \subseteq Range(prev.new)
                  /\ printed[p] = <<>>

\* The run after a run on an empty ledger has found the same events again.
IdempotentRerunReached ==
    \E p \in Procs :
        /\ LoopsDone(p)
        /\ prev.valid
        /\ events[p] # <<>>
        /\ Range(prev.events) = Range(events[p])
        /\ Range(prev.new) = Range(events[p])

\* An earlier run has recorded an event of the store and start minute of ev
\* under another title.
RecordedUnderOtherTitle(ev) ==
    \E r \in recorded :
        /\ r.store = ev.store
        /\ Minute(r.start) = Minute(ev.start)
        /\ r.title # ev.title

\* C3: a record whose store and start minute an earlier run recorded under
\* another title is not surfaced as new by a later run.
TitleChangeNotNew ==
    \A p \in Procs :
        pc[p] = "notify" =>
            \A i \in 1..Len(events[p]) :
                RecordedUnderOtherTitle(events[p][i]) =>
                    /\ events[p][i] \notin Range(new_events[p])
                    /\ events[p][i] \notin Range(printed[p])
                    /\ events[p][i] \notin Range(sent[p])

\* A later run has found a recorded slot under a title no run has recorded.
TitleChangeNotNewReached ==
    \E p \in Procs :
        /\ LoopsDone(p)
        /\ \E i \in 1..Len(events[p]) :
              /\ RecordedUnderOtherTitle(events[p][i])
              /\ \A r \in recorded : r.title # events[p][i].title

\* C4: every id the ledger file holds is still in it after any step: a run
\* only ever adds ids.
LedgerOnlyGrows ==
    [][file.kind = "list" => (file'.kind = "list" /\ file.ids \subseteq file'.ids)]_vars

\* A run that read ids from the ledger has saved them together with new ones.
LedgerOnlyGrowsReached ==
    \E p \in Procs :
        /\ pc[p] \in {"done", "export"}
        /\ loaded[p] # {}
        /\ printed[p] # <<>>
        /\ file.kind = "list"
        /\ loaded[p] \subseteq file.ids
        /\ file.ids # loaded[p]

\* C5: a run that finds the ledger file missing or unparseable goes on with an
\* empty ledger; it does not fail.
LedgerFaultTolerated ==
    \A p \in Procs :
        /\ pc[p] # "crashed"
        /\ (pc[p] = "scrape" /\ file.kind # "list") => loaded[p] = {}

\* C14: an export writes the whole event set of the run: as many calendar
\* entries and as many rows as it has events, the uid of every entry being the
\* slot id of its event.
ExportsWholeEventSet ==
    \A p \in Procs :
        (pc[p] = "done" /\ ~post[p]) =>
            /\ ics[p] # <<>> =>
                  /\ Len(ics[p]) = Len(events[p])
                  /\ \A i \in 1..Len(ics[p]) :
                        \E j \in 1..Len(events[p]) : ics[p][i] = stable_id(events[p][j])
            /\ csv[p] # <<>> =>
                  /\ Len(csv[p]) = Len(events[p])
                  /\ Range(csv[p]) = Range(events[p])

\* What the adapters visited so far have contributed: the events of those that
\* did not raise, in the order of the visits.
RECURSIVE Contributions(_)
Contributions(o) ==
    IF o = <<>> THEN <<>>
    ELSE Contributions(SubSeq(o, 1, Len(o) - 1))
            \o (IF o[Len(o)].raised THEN <<>> ELSE o[Len(o)].events)

\* C6: the adapters are visited one after the other in a fixed order; whichever
\* of them raise, find_events goes on and holds exactly the records of those
\* that did not.
AdapterIsolation ==
    \A p \in Procs :
        pc[p] \in {"scrape", "filter"} =>
            /\ Len(outcome[p]) = idx[p] - 1
            /\ \A i \in 1..Len(outcome[p]) : outcome[p][i].store = Adapters[i]
            /\ evs[p] = Contributions(outcome[p])
            /\ pc[p] = "filter" <=> Len(outcome[p]) = Len(Adapters)

\* All six adapters have been visited; some raised, before and after others
\* that contributed.
AdapterIsolationReached ==
    \E p \in Procs :
        /\ pc[p] = "filter"
        /\ outcome[p][1].raised
        /\ ~outcome[p][2].raised /\ outcome[p][2].events # <<>>
        /\ outcome[p][5].raised
        /\ ~outcome[p][6].raised /\ outcome[p][6].events # <<>>

\* C10: every record find_events returned starts no earlier than one day
\* before the run time.
WithinWindow ==
    \A p \in Procs :
        pc[p] \in {"notify", "export", "done"} =>
            \A e \in Range(events[p]) \cup Range(printed[p]) \cup Range(sent[p])
                        \cup Range(csv[p]) :
                e.start >= now[p] - OneDay

\* find_events has returned an event that started before the run, within the day.
WithinWindowReached ==
    \E p \in Procs :
        /\ pc[p] = "notify"
        /\ \E i \in 1..Len(events[p]) :
              /\ events[p][i].start < now[p]
              /\ events[p][i].start >= now[p] - OneDay

\* a can be had from b by leaving elements out.
RECURSIVE IsSubseq(_, _)
IsSubseq(a, b) ==
    IF a = <<>> THEN TRUE
    ELSE IF b = <<>> THEN FALSE
    ELSE IF Head(a) = Head(b) THEN IsSubseq(Tail(a), Tail(b))
    ELSE IsSubseq(a, Tail(b))

Ascending(evl) == \A i, j \in 1..Len(evl) : i < j => evl[i].start <= evl[j].start

\* C15, as the specification words it: a "run" invocation has the webhook
\* receive one message for every event it surfaced as new.
SinkReceivesEveryNew ==
    \A p \in Procs : (post[p] /\ pc[p] = "done") => sent[p] = printed[p]

\* C15, as the program has it: the new events are visited in ascending order
\* of start, and the webhook receives, in that order, a message for each of
\* them and for no other event when DISCORD_WEBHOOK_URL is set and no delivery
\* fails; it receives none when the variable is not set or the invocation is
\* an "export", and none for an event whose delivery fails.
SinkReceivesNewInStartOrder ==
    \A p \in Procs :
        pc[p] \in {"notify", "done", "export"} =>
            /\ Ascending(printed[p])
            /\ Range(printed[p]) \subseteq Range(new_events[p])
            /\ IsSubseq(sent[p], printed[p])
            /\ ~(post[p] /\ webhook[p]) => sent[p] = <<>>
            /\ (post[p] /\ webhook[p] /\ ~lost[p]) => sent[p] = printed[p]
            /\ (pc[p] # "notify" \/ queue[p] = <<>>) => Len(printed[p]) = Len(new_events[p])

\* A "run" invocation has delivered a message for each of several new events,
\* which find_events had returned in another order.
SinkReceivesNewInStartOrderReached ==
    \E p \in Procs :
        /\ pc[p] = "done"
        /\ post[p] /\ webhook[p] /\ ~lost[p]
        /\ Len(sent[p]) >= 2
        /\ sent[p][1].start < sent[p][2].start
        /\ sent[p] # new_events[p]

\* The ids of the events of a list.
IdsOf(evl) == UNION {{uid(evl[i]), stable_id(evl[i])} : i \in 1..Len(evl)}

\* C16: the ledger saved is the ledger loaded and both ids of every event of
\* the event set that was new against it, whether or not a webhook is set and
\* whichever deliveries failed; of an event the webhook receives at most one
\* message.
LedgerIgnoresDelivery ==
    \A p \in Procs :
        pc[p] \in {"done", "export"} =>
            /\ file = FileList(loaded[p] \cup IdsOf(novelty_diff(events[p], loaded[p])))
            /\ seen[p] = file.ids
            /\ Len(sent[p]) <= Len(printed[p])

\* A run has saved the ids of an event whose delivery failed.
LedgerIgnoresDeliveryReached ==
    \E p \in Procs :
        /\ pc[p] = "done"
        /\ post[p] /\ webhook[p] /\ lost[p]
        /\ \E i \in 1..Len(printed[p]) :
              /\ printed[p][i] \notin Range(sent[p])
              /\ {uid(printed[p][i]), stable_id(printed[p][i])} \subseteq file.ids

\* C19: the ledger file is read by the step that starts the run and by no
\* other; it changes only in the step that ends run_once, which comes when
\* every new event has been printed and recorded and writes the whole of
\* seen; before that step the file is what it was when the run started, and
\* every run that has loaded the ledger comes to that step, whichever of its
\* adapters raise.
LedgerReadOnceWrittenOnce ==
    /\ [][\A p \in {1} :
            /\ (~InRun(pc[p]) /\ InRun(pc'[p])) =>
                   /\ file' = file
                   /\ loaded'[p] = load_state(file).seen
            /\ (InRun(pc[p]) /\ InRun(pc'[p])) =>
                   /\ file' = file
                   /\ loaded'[p] = loaded[p]
            /\ (InRun(pc[p]) /\ ~InRun(pc'[p])) =>
                   /\ queue[p] = <<>>
                   /\ Len(printed[p]) = Len(new_events[p])
                   /\ seen[p] = loaded[p] \cup IdsOf(printed[p])
                   /\ file' = FileList(seen[p])
            /\ (~InRun(pc[p]) /\ ~InRun(pc'[p])) => file' = file]_vars
    /\ \A p \in {1} : (pc[p] = "scrape") ~> (pc[p] \in {"done", "export"})

\* A run in which an adapter raised has written the ledger, with the ids of
\* the events the other adapters returned.
LedgerReadOnceWrittenOnceReached ==
    \E p \in {1} :
        /\ pc[p] = "done"
        /\ warned[p]
        /\ printed[p] # <<>>
        /\ file = FileList(loaded[p] \cup IdsOf(printed[p]))
        /\ file.ids # loaded[p]

\* Neither id of the event is in the ledger the run loaded.
Unseen(p, ev) == uid(ev) \notin loaded[p] /\ stable_id(ev) \notin loaded[p]

\* C22: two records of the run's event set that have one slot id, neither
\* with an id in the ledger the run loaded, are both new; once the second loop
\* has ended both have been printed, and the webhook has received a message
\* for both when the run is a "run", the webhook is set and no delivery failed.
SlotMatesBothSurfaced ==
    \A p \in Procs :
        pc[p] \in {"notify", "done", "export"} =>
            \A i, j \in 1..Len(events[p]) :
                (/\ i # j
                 /\ stable_id(events[p][i]) = stable_id(events[p][j])
                 /\ Unseen(p, events[p][i])
                 /\ Unseen(p, events[p][j])) =>
                    /\ {events[p][i], events[p][j]} \subseteq Range(new_events[p])
                    /\ (pc[p] # "notify" \/ queue[p] = <<>>) =>
                          /\ {events[p][i], events[p][j]} \subseteq Range(printed[p])
                          /\ (post[p] /\ webhook[p] /\ ~lost[p]) =>
                                {events[p][i], events[p][j]} \subseteq Range(sent[p])

\* A "run" has delivered messages for two events of one slot id.
SlotMatesBothSurfacedReached ==
    \E p \in Procs :
        /\ pc[p] = "done"
        /\ post[p] /\ webhook[p] /\ ~lost[p]
        /\ \E i, j \in 1..Len(sent[p]) :
              /\ i # j
              /\ sent[p][i] # sent[p][j]
              /\ stable_id(sent[p][i]) = stable_id(sent[p][j])
              /\ Unseen(p, sent[p][i])

\* C23: the ids the saved ledger holds beyond those loaded are the content id
\* and the slot id of the events printed as new, and no other; of an event
\* kept back the content id is in the saved ledger only if it was loaded.
LedgerGainsOnlyIdsOfNew ==
    \A p \in Procs :
        pc[p] \in {"done", "export"} =>
            /\ file.ids \ loaded[p] = IdsOf(printed[p]) \ loaded[p]
            /\ loaded[p] \subseteq file.ids
            /\ \A i \in 1..Len(events[p]) :
                  ~Unseen(p, events[p][i]) =>
                      /\ events[p][i] \notin Range(printed[p])
                      /\ uid(events[p][i]) \in file.ids <=> uid(events[p][i]) \in loaded[p]

\* A run that surfaced an event has saved the ledger without the content id
\* of another event, whose slot id alone the loaded ledger held.
LedgerGainsOnlyIdsOfNewReached ==
    \E p \in Procs :
        /\ pc[p] = "done"
        /\ printed[p] # <<>>
        /\ \E i \in 1..Len(events[p]) :
              /\ stable_id(events[p][i]) \in loaded[p]
              /\ uid(events[p][i]) \notin loaded[p]
              /\ uid(events[p][i]) \notin file.ids

\* C20: as long as no run has loaded the ledger while another stood between
\* its load and its save, no run sends a message for an event that a finished
\* run has surfaced, and no two runs alive have sent a message for one event.
NotifiedTwiceOnlyAfterOverlap ==
    ~overlap =>
        \A p \in Procs :
            /\ InRun(pc[p]) => Range(sent[p]) \cap recorded = {}
            /\ \A q \in Procs \ {p} : Range(sent[p]) \cap Range(sent[q]) = {}

\* Two runs that both loaded the ledger before either saved it have both
\* sent a message for one event.
NotifiedTwiceOnlyAfterOverlapReached ==
    /\ overlap
    /\ loaded[1] = loaded[2]
    /\ pc[1] = "done" /\ pc[2] = "done"
    /\ Range(sent[1]) \cap Range(sent[2]) # {}

\* ------------------------------------------------------------------ one adapter on its own

\* The longest element list of a page.
MaxItems == 3

SeqsUpTo(S, n) == UNION {[1..k -> S] : k \in 0..n}

\* What the source of an adapter may list.
ItemPool(store) ==
    CASE store = StoreDS ->
             {DayNode(30), DayNode(0),
              CalLink(TNight, EventUrl("1"), <<>>, NoDay),
              CalLink(TNexus, EventUrl("2"), Range1923, NoDay),
              CalLink(TNight, PageUrl("c", "1"), BadClockText, NoDay),
              CalLink(TTcg, PageUrl("c", "2"), <<>>, 28),
              CalLink(TNexus, EventUrl("3"),
                      <<TokClock(Clock(22, 0, "")), TokDash, TokClock(Clock(1, 0, ""))>>, NoDay)}
      [] store \in Shopify ->
             {Link(TNexusPlain, PageUrl("p", "1"), TRUE, FALSE, Date(2025, 12, 1), NoDate, <<>>),
              Link(TNight, PageUrl("p", "2"), FALSE, FALSE, NoDate, NoDate, <<>>),
              Link(TNight, PageUrl("p", "3"), TRUE, FALSE, NoDate, Date(2025, 11, 30), BadClockText),
              Link(TNexus, PageUrl("p", "3"), TRUE, FALSE, NoDate, Date(2025, 11, 30),
                   <<TokClock(Clock(6, 30, "pm"))>>),
              Link(TNexus, PageUrl("p", "2"), TRUE, FALSE, NoDate, Date(2025, 11, 30),
                   <<TokClock(Clock(11, 30, "pm"))>>)}
      [] store = StoreZO ->
             {ZomLink,
              Link(TNight, PageUrl("z", "2"), TRUE, FALSE, NoDate, Date(2025, 11, 30), BadClockText),
              Link(TNight, PageUrl("z", "2"), TRUE, FALSE, NoDate, NoDate, <<TokClock(C1830)>>),
              Link(TNexus, PageUrl("z", "1"), TRUE, FALSE, NoDate, Date(2025, 12, 1), <<>>)}
      [] OTHER ->
             {Link(TTcg, PageUrl("e", "1"), TRUE, TRUE, NoDate, Date(2025, 11, 30), <<>>),
              Link(TNight, PageUrl("e", "2"), TRUE, FALSE, Date(2025, 11, 30), NoDate, <<TokClock(C1300)>>),
              Link(TNexus, PageUrl("e", "3"), TRUE, FALSE, Date(2025, 12, 13), NoDate, BadClockText),
              Link(TNexus, PageUrl("e", "4"), TRUE, FALSE, NoDate, NoDate, Range1923)}

AdapterPages(store) ==
    {Page(ok, 11, items, FALSE, <<>>, <<>>) :
        ok \in BOOLEAN, items \in SeqsUpTo(ItemPool(store), MaxItems)}

InitAdapter ==
    /\ file = FileMissing
    /\ RunInit
    /\ DedupOff
    /\ DateOff
    /\ ad_pc = "fetch"
    /\ ad_store \in Range(Adapters)
    /\ ad_page \in AdapterPages(ad_store)
    /\ ad_now \in Nows
    /\ ad_todo = <<>>
    /\ ad_st = AdapterStart(ad_page)
    /\ ad_out = <<>>

\* The adapter fetches its hub page.
AdapterFetch ==
    /\ ad_pc = "fetch"
    /\ IF FetchRaises(ad_store, ad_page)
       THEN ad_pc' = "raised" /\ UNCHANGED ad_todo
       ELSE ad_pc' = "loop" /\ ad_todo' = WorkItems(ad_store, ad_page)
    /\ UNCHANGED <<ad_store, ad_page, ad_now, ad_st, ad_out>>
    /\ UNCHANGED <<runVars, ddVars, rdVars>>

\* One iteration of the adapter's loop; an exception leaves the adapter.
AdapterIter ==
    /\ ad_pc = "loop"
    /\ ad_todo # <<>>
    /\ ad_st' = adapter_step(ad_store, ad_st, Head(ad_todo), ad_now)
    /\ ad_todo' = Tail(ad_todo)
    /\ ad_pc' = IF ad_st'.raised THEN "raised" ELSE "loop"
    /\ UNCHANGED <<ad_store, ad_page, ad_now, ad_out>>
    /\ UNCHANGED <<runVars, ddVars, rdVars>>

\* The loop has ended: the adapter returns.
AdapterReturn ==
    /\ ad_pc = "loop"
    /\ ad_todo = <<>>
    /\ ad_out' = adapter_return(ad_store, ad_st.events)
    /\ ad_pc' = "returned"
    /\ UNCHANGED <<ad_store, ad_page, ad_now, ad_todo, ad_st>>
    /\ UNCHANGED <<runVars, ddVars, rdVars>>

NextAdapter == AdapterFetch \/ AdapterIter \/ AdapterReturn

SpecAdapter == InitAdapter /\ [][NextAdapter]_vars

\* C7: when a candidate of a source has a date or time no instant can be
\* made of, the candidates the adapter extracted before it are still returned.
BadCandidateDropsOnlyItself ==
    ad_pc \in {"returned", "raised"} =>
        \A i \in 1..Len(ad_st.events) :
            \E j \in 1..Len(ad_out) :
                /\ ad_out[j].title = ad_st.events[i].title
                /\ ad_out[j].start = ad_st.events[i].start

\* C11: every record an adapter has produced ends no earlier than it starts.
EndNotBeforeStart ==
    \A i \in 1..Len(ad_st.events) : ad_st.events[i].end >= ad_st.events[i].start

\* C18: the list an adapter returns holds no two records of one title and start.
ReturnsNoTwoOfTitleAndStart ==
    ad_pc = "returned" =>
        \A i, j \in 1..Len(ad_out) :
            (ad_out[i].title = ad_out[j].title /\ ad_out[i].start = ad_out[j].start) => i = j

\* ------------------------------------------------------------------ _dedup_slot_conflicts on its own

\* The longest candidate list.
MaxLen == 3

Slot1300 == ParseDateTime(Date(2025, 11, 30), C1300)

Slot1900 == ParseDateTime(Date(2025, 11, 30), C1900)

\* Candidates of two slots: at Europa, whose adapter also takes a page that
\* names the keyword in its body only, and at Dark Sphere.
DedupPool ==
    {RBEvent(TTcg, Slot1300, guess_end(Slot1300, 4), PageUrl("e", "1"), StoreEU),
     RBEvent(TTcgDash, Slot1300, guess_end(Slot1300, 4), PageUrl("e", "4"), StoreEU),
     RBEvent(TNight, Slot1300, guess_end(Slot1300, 4), PageUrl("e", "2"), StoreEU),
     RBEvent(TnightLower, Slot1300, guess_end(Slot1300, 4), PageUrl("e", "4"), StoreEU),
     RBEvent(TNexus, Slot1300, guess_end(Slot1300, 4), PageUrl("e", "3"), StoreEU),
     RBEvent(TNight, Slot1900, guess_end(Slot1900, 4), EventUrl("2"), StoreDS),
     RBEvent(TNight, Slot1900, guess_end(Slot1900, 4), EventUrl("1"), StoreDS),
     RBEvent(TNexus, Slot1900, guess_end(Slot1900, 4), PageUrl("c", "1"), StoreDS)}

AdapterRank(store) == CHOOSE i \in 1..Len(Adapters) : Adapters[i] = store

\* A list find_events can hand over: the adapters' results in the order of the
\* adapters, each but Dark Sphere's without two records of one title and start.
CanBeFound(evl) ==
    \A i, j \in 1..Len(evl) :
        i < j =>
            /\ AdapterRank(evl[i].store) <= AdapterRank(evl[j].store)
            /\ (evl[i].store = evl[j].store /\ evl[i].store # StoreDS) =>
                   <<evl[i].title, evl[i].start>> # <<evl[j].title, evl[j].start>>

InitDedup ==
    /\ file = FileMissing
    /\ RunInit
    /\ AdapterOff
    /\ DateOff
    /\ dd_pc = "loop"
    /\ dd_events \in {evl \in SeqsUpTo(DedupPool, MaxLen) : CanBeFound(evl)}
    /\ dd_todo = dd_events
    /\ by_key = <<>>
    /\ dd_out = <<>>

\* One iteration of the loop over events.
DedupIter ==
    /\ dd_pc = "loop"
    /\ dd_todo # <<>>
    /\ by_key' = dedup_step(by_key, Head(dd_todo))
    /\ dd_todo' = Tail(dd_todo)
    /\ UNCHANGED <<dd_pc, dd_events, dd_out>>
    /\ UNCHANGED <<runVars, adVars, rdVars>>

\* return list(by_key.values())
DedupReturn ==
    /\ dd_pc = "loop"
    /\ dd_todo = <<>>
    /\ dd_out' = dict_values(by_key)
    /\ dd_pc' = "returned"
    /\ UNCHANGED <<dd_events, dd_todo, by_key>>
    /\ UNCHANGED <<runVars, adVars, rdVars>>

NextDedup == DedupIter \/ DedupReturn

SpecDedup == InitDedup /\ [][NextDedup]_vars

SameSlot(a, b) == a.store = b.store /\ Minute(a.start) = Minute(b.start)

\* The places of the list that hold a candidate of the slot of ev.
InSlot(evl, ev) == {i \in 1..Len(evl) : SameSlot(evl[i], ev)}

\* C8: of the candidates of one store and start minute whose canonical titles
\* contain the keyword, the returned list holds exactly one.
KeywordSlotKeepsOne ==
    dd_pc = "returned" =>
        \A i \in 1..Len(dd_events) :
            HasRiftbound(dd_events[i].title) =>
                Cardinality({j \in InSlot(dd_out, dd_events[i]) :
                                HasRiftbound(dd_out[j].title)}) = 1

\* C9: a candidate with the keyword and a candidate without it, of one store
\* and start minute, are both kept, whichever comes first: when they are the
\* only two of the slot the returned list holds both, and in any list it holds
\* a keyword candidate of the slot and one of the other's canonical title.
KeywordAndOtherBothKept ==
    dd_pc = "returned" =>
        \A i, j \in 1..Len(dd_events) :
            (/\ SameSlot(dd_events[i], dd_events[j])
             /\ HasRiftbound(dd_events[i].title)
             /\ ~HasRiftbound(dd_events[j].title)) =>
                /\ \E k \in InSlot(dd_out, dd_events[i]) : HasRiftbound(dd_out[k].title)
                /\ \E k \in InSlot(dd_out, dd_events[j]) :
                      _canonical_title(dd_out[k].title) = _canonical_title(dd_events[j].title)
                /\ InSlot(dd_events, dd_events[i]) = {i, j} =>
                      {dd_events[i], dd_events[j]} \subseteq Range(dd_out)

\* The list held a candidate without the keyword and then one with it, of one
\* slot, and both have been returned.
KeywordAndOtherBothKeptReached ==
    /\ dd_pc = "returned"
    /\ Len(dd_events) = 2
    /\ SameSlot(dd_events[1], dd_events[2])
    /\ ~HasRiftbound(dd_events[1].title)
    /\ HasRiftbound(dd_events[2].title)
    /\ dd_out = dd_events

\* The places of the list that hold a keyword candidate of the slot of ev.
KeywordInSlot(evl, ev) == {i \in InSlot(evl, ev) : HasRiftbound(evl[i].title)}

\* C17: where the keyword candidates of one store and start minute have been
\* collapsed into one returned record, no keyword candidate of the slot has a
\* greater score (event.php in the url, then length of title) than that
\* record, and the record is the first candidate of the list with its score.
CollapseKeepsFirstOfBestScore ==
    dd_pc = "returned" =>
        \A k \in 1..Len(dd_out) :
            (HasRiftbound(dd_out[k].title) /\ KeywordInSlot(dd_out, dd_out[k]) = {k}) =>
                LET cands == KeywordInSlot(dd_events, dd_out[k])
                IN  /\ \A i \in cands : ScoreGE(score(dd_out[k]), score(dd_events[i]))
                    /\ \E i \in cands :
                          /\ dd_events[i] = dd_out[k]
                          /\ \A j \in cands :
                                j < i => score(dd_events[j]) # score(dd_out[k])

\* Three keyword candidates of one slot, the last two of equal score and
\* greater than the first's, have been collapsed into the second.
CollapseKeepsFirstOfBestScoreReached ==
    /\ dd_pc = "returned"
    /\ Len(dd_events) = 3
    /\ \A i \in 1..3 : HasRiftbound(dd_events[i].title) /\ SameSlot(dd_events[i], dd_events[1])
    /\ score(dd_events[2]) = score(dd_events[3])
    /\ dd_events[2] # dd_events[3]
    /\ score(dd_events[1]) # score(dd_events[2])
    /\ dd_out = <<dd_events[2]>>

\* C21: the returned list holds no two records of one store, one start minute
\* and one canonical title.
NoTwoOfSlotAndCanonicalTitle ==
    dd_pc = "returned" =>
        \A i, j \in 1..Len(dd_out) :
            (i < j /\ SameSlot(dd_out[i], dd_out[j])) =>
                _canonical_title(dd_out[i].title) # _canonical_title(dd_out[j].title)

\* The slots of a list: its pairs of store and start minute.
Slots(evl) == {<<evl[i].store, Minute(evl[i].start)>> : i \in 1..Len(evl)}

\* C24: every returned record is one of the candidates, field for field, and
\* every store and start minute that has a candidate has a returned record.
DedupKeepsRecordsAndSlots ==
    dd_pc = "returned" =>
        /\ Range(dd_out) \subseteq Range(dd_events)
        /\ Slots(dd_out) = Slots(dd_events)

\* Three candidates of two slots have been returned as two records, the two
\* of one slot collapsed into one of them.
DedupKeepsRecordsAndSlotsReached ==
    /\ dd_pc = "returned"
    /\ Len(dd_events) = 3
    /\ Cardinality(Range(dd_events)) = 3
    /\ Cardinality(Slots(dd_events)) = 2
    /\ Len(dd_out) = 2
    /\ Cardinality(Slots(dd_out)) = 2

\* ------------------------------------------------------------------ resolve_calendar_date on its own

\* The largest day number tried.
MaxDay == 32

InitDate ==
    /\ file = FileMissing
    /\ RunInit
    /\ DedupOff
    /\ AdapterOff
    /\ rd_pc = "called"
    /\ rd_month \in 1..12
    /\ rd_year \in {2023, 2024}
    /\ rd_day \in 0..MaxDay
    /\ rd_out = NoDate

ResolveDate ==
    /\ rd_pc = "called"
    /\ rd_out' = resolve_calendar_date(rd_month, rd_year, rd_day)
    /\ rd_pc' = "returned"
    /\ UNCHANGED <<rd_month, rd_year, rd_day>>
    /\ UNCHANGED <<runVars, ddVars, adVars>>

NextDate == ResolveDate

SpecDate == InitDate /\ [][NextDate]_vars

\* C12, as the specification words it: day 31 of April 2024 resolves to
\* 1 May 2024, day 30 of February 2023 to 2 March 2023.
RollsToOverflowDay ==
    rd_pc = "returned" =>
        /\ (rd_month = 4 /\ rd_year = 2024 /\ rd_day = 31) => rd_out = Date(2024, 5, 1)
        /\ (rd_month = 2 /\ rd_year = 2023 /\ rd_day = 30) => rd_out = Date(2023, 3, 2)

\* C12, as the program has it: day 31 of April 2024 resolves to 31 May 2024,
\* day 30 of February 2023 to 30 March 2023: the day number is kept.
RollsToSameDay ==
    rd_pc = "returned" =>
        /\ (rd_month = 4 /\ rd_year = 2024 /\ rd_day = 31) => rd_out = Date(2024, 5, 31)
        /\ (rd_month = 2 /\ rd_year = 2023 /\ rd_day = 30) => rd_out = Date(2023, 3, 30)

\* Day 31 of April 2024 has been resolved.
RollsToSameDayReached ==
    /\ rd_pc = "returned"
    /\ rd_month = 4 /\ rd_year = 2024 /\ rd_day = 31
    /\ rd_out # NoDate

\* The month after (year, month).
FollowingMonth(year, month) ==
    IF month = 12 THEN Date(year + 1, 1, 0) ELSE Date(year, month + 1, 0)

\* (year, month, day) is a day of the calendar: midnight of the day after it
\* is one day later, and the month has that many days.
OnCalendar(year, month, day) ==
    /\ month \in 1..12
    /\ day >= 1
    /\ Midnight(Date(year, month, day)) + OneDay <=
           Midnight([FollowingMonth(year, month) EXCEPT !.day = 1])

\* C13: the given day of the given month when that is a date; else the same
\* day of the following month (of January of the next year after December)
\* when that is a date; else nothing, as for day 32 of December 2024.
OneRolloverAttempt ==
    rd_pc = "returned" =>
        LET next == FollowingMonth(rd_year, rd_month)
        IN  /\ OnCalendar(rd_year, rd_month, rd_day) =>
                  rd_out = Date(rd_year, rd_month, rd_day)
            /\ (~OnCalendar(rd_year, rd_month, rd_day)
                    /\ OnCalendar(next.year, next.month, rd_day)) =>
                  rd_out = Date(next.year, next.month, rd_day)
            /\ (~OnCalendar(rd_year, rd_month, rd_day)
                    /\ ~OnCalendar(next.year, next.month, rd_day)) =>
                  rd_out = NoDate
            /\ (rd_month = 12 /\ rd_year = 2024 /\ rd_day = 32) => rd_out = NoDate

\* Day 32 of December 2024 has been tried: no day of December, none of
\* January 2025.
OneRolloverAttemptReached ==
    /\ rd_pc = "returned"
    /\ rd_month = 12 /\ rd_year = 2024 /\ rd_day = 32
    /\ rd_out = NoDate

====
